---------------------------- MODULE Spec2Model ----------------------------
(***************************************************************************)
(* A model of the line wrapper (m/linewrapper: getWrapWidth, wrapLine) and *)
(* of the colour model (twin/colors.go) of the moar pager.                 *)
(*                                                                         *)
(* A cell is a record [Rune, Style]; a line is a sequence of cells.  Go    *)
(* slices are 0-based, TLA+ sequences 1-based: indices keep their Go       *)
(* values and At(line, i) reads line[i].                                   *)
(***************************************************************************)
EXTENDS Integers, Sequences, FiniteSets, TLC

VARIABLES
    entry,       \* the function the caller invoked: "wrapLine", "getWrapWidth" or ""
    pc,          \* wrapper: "off", "idle", "loop", "done", "returned", "panic"
    impl,        \* which getWrapWidth is linked in: "scan" (pager.go) or "fixed" (part_000)
    width,       \* wrapLine's / getWrapWidth's width argument
    input,       \* the line the caller passed
    line,        \* wrapLine's local `line` (the remainder)
    wrapped,     \* wrapLine's local `wrapped`
    wrapWidth,   \* wrapLine's local `wrapWidth` / getWrapWidth's return value
    cstate,      \* colour: "off", "none", "built", "returned", "panic", "returned2",
                 \* "panic2", "distReturned", "distPanic"
    ctor,        \* the constructor that built `color`
    arg,         \* the constructor's argument(s), a sequence of integers
    color,       \* the Color value (a uint32, as [hi, lo])
    target,      \* downsampleTo's terminalColorCount
    result,      \* downsampleTo's return value (a uint32, as [hi, lo])
    target2,     \* the terminalColorCount of a second downsampleTo, of `result`
    result2,     \* the second downsampleTo's return value
    otherColor,       \* Distance's argument
    dist,        \* Distance's return value
    pager,       \* the Pager object p, a record of its fields
    ev,          \* the event the pager's main loop handled last
    ploop,       \* the pager's main loop: "off", "running", "hung", "panic", "exited"
    tk,          \* the tokenizer working on one line, a record
    cc           \* one call of consumeCompositeColor, a record

wvars == <<entry, pc, impl, width, input, line, wrapped, wrapWidth>>
cvars == <<cstate, ctor, arg, color, target, result, target2, result2, otherColor, dist>>
c2vars == <<target2, result2, otherColor, dist>>
pvars == <<pager, ev, ploop>>
tvars == <<tk, cc>>
vars == <<entry, pc, impl, width, input, line, wrapped, wrapWidth,
          cstate, ctor, arg, color, target, result, target2, result2, otherColor, dist,
          pager, ev, ploop, tk, cc>>

\* what the wrapper's, the colours' and the pager's steps leave alone
notWrap == <<cvars, pvars, tvars>>
notColor == <<wvars, pvars, tvars>>
notPager == <<wvars, cvars, tvars>>
notToken == <<wvars, cvars, pvars>>

\* the values of the variables of a unit that is not running
NoPager ==
    [reader |-> "", quit |-> FALSE, scrollPosition |-> 0, leftColumnZeroBased |-> 0,
     mode |-> "", searchString |-> <<>>, searchPattern |-> <<>>,
     isShowingHelp |-> FALSE, preHelpState |-> <<>>,
     ShowLineNumbers |-> FALSE, WrapLongLines |-> FALSE]
NoEvent == [type |-> "", code |-> ""]
PagerOff == pager = NoPager /\ ev = NoEvent /\ ploop = "off"
NoStyle == [bold |-> FALSE, fg |-> [hi |-> 0, lo |-> 0], bg |-> [hi |-> 0, lo |-> 0]]
NoTokens ==
    [state |-> "off", pieces |-> <<>>, input |-> <<>>, pos |-> 1, seq |-> <<>>, style |-> NoStyle,
     cells |-> <<>>, plain |-> <<>>, diagnostics |-> 0]
NoCall ==
    [state |-> "off", numbers |-> <<>>, index |-> 0, newIndex |-> 0,
     color |-> <<>>, failed |-> FALSE]
TokenOff == tk = NoTokens /\ cc = NoCall

---------------------------------------------------------------------------
(* Bounds of the model.                                                    *)

MaxLen == 5
MaxWidth == 3

---------------------------------------------------------------------------
(* Cells and whitespace.                                                   *)

\* const NO_BREAK_SPACE = '\xa0'
NO_BREAK_SPACE == 160

\* unicode.IsSpace: the Latin-1 white space plus the Unicode Z-category
\* space characters.
IsSpace(r) ==
    r \in ({9, 10, 11, 12, 13, 32, 133, 160, 5760, 8232, 8233, 8239, 8287, 12288}
           \cup (8192..8202))

\* The cells lines are drawn from: two letters in different styles, a space
\* and a non-breaking space.
Cells ==
    { [Rune |-> 97, Style |-> 0], [Rune |-> 98, Style |-> 1],
      [Rune |-> 32, Style |-> 0], [Rune |-> NO_BREAK_SPACE, Style |-> 0] }

RECURSIVE SeqsUpTo(_, _)
SeqsUpTo(S, n) ==
    IF n = 0 THEN { <<>> }
    ELSE LET shorter == SeqsUpTo(S, n - 1)
         IN shorter \cup { Append(s, c) : s \in { t \in shorter : Len(t) = n - 1 }, c \in S }

Lines == SeqsUpTo(Cells, MaxLen)

\* line[i] with Go's 0-based index
At(l, i) == l[i + 1]

\* twin.TrimSpaceRight: the cells up to the last one that is not white space
TrimSpaceRight(cells) ==
    LET keep == { i \in 1..Len(cells) : ~IsSpace(cells[i].Rune) }
    IN IF keep = {} THEN <<>>
       ELSE SubSeq(cells, 1, CHOOSE i \in keep : \A j \in keep : j <= i)

\* twin.TrimSpaceLeft: the cells from the first one that is not white space
TrimSpaceLeft(cells) ==
    LET keep == { i \in 1..Len(cells) : ~IsSpace(cells[i].Rune) }
    IN IF keep = {} THEN <<>>
       ELSE SubSeq(cells, CHOOSE i \in keep : \A j \in keep : i <= j, Len(cells))

---------------------------------------------------------------------------
(* getWrapWidth                                                            *)

\* mutant: the guard off by one, `len(line) <= maxWrapWidth+1`
getWrapWidthPanicsEager(l, maxWrapWidth) == Len(l) <= maxWrapWidth + 1

\* if len(line) <= maxWrapWidth { panic(...) }
getWrapWidthPanics(l, maxWrapWidth) == Len(l) <= maxWrapWidth

\* for nextIndex := maxWrapWidth; nextIndex > 0; nextIndex-- { ... }
RECURSIVE scanWrapWidth(_, _, _)
scanWrapWidth(l, nextIndex, maxWrapWidth) ==
    IF ~(nextIndex > 0) THEN maxWrapWidth            \* No breakpoint found, give up
    ELSE LET char == At(l, nextIndex).Rune
         IN IF ~IsSpace(char) THEN scanWrapWidth(l, nextIndex - 1, maxWrapWidth)
            ELSE IF char = NO_BREAK_SPACE THEN scanWrapWidth(l, nextIndex - 1, maxWrapWidth)
            ELSE nextIndex

\* mutant: the scan without the NO_BREAK_SPACE test
RECURSIVE scanAnySpace(_, _, _)
scanAnySpace(l, nextIndex, maxWrapWidth) ==
    IF ~(nextIndex > 0) THEN maxWrapWidth
    ELSE IF ~IsSpace(At(l, nextIndex).Rune) THEN scanAnySpace(l, nextIndex - 1, maxWrapWidth)
    ELSE nextIndex

getWrapWidthScanAnySpace(l, maxWrapWidth) == scanAnySpace(l, maxWrapWidth, maxWrapWidth)

\* pager.go: the break index, for a line longer than maxWrapWidth
getWrapWidthScan(l, maxWrapWidth) == scanWrapWidth(l, maxWrapWidth, maxWrapWidth)

\* mutant: no progress, the break index 0
getWrapWidthFixedZero(l, maxWrapWidth) == 0

\* part_000: return maxWrapWidth
getWrapWidthFixed(l, maxWrapWidth) == maxWrapWidth

getWrapWidth(l, maxWrapWidth) ==
    IF impl = "scan" THEN getWrapWidthScan(l, maxWrapWidth)
    ELSE getWrapWidthFixed(l, maxWrapWidth)

---------------------------------------------------------------------------
(* wrapLine, one action per step                                           *)

\* mutant: firstPart := line[:wrapWidth+1]
loopSubLineOneMore(l, soFar, w) ==
    LET firstPart == SubSeq(l, 1, w + 1)
        trimmed == IF Len(soFar) > 0 THEN TrimSpaceLeft(firstPart) ELSE firstPart
    IN TrimSpaceRight(trimmed)

\* mutant: the sub-line appended without its right trim
loopSubLineNoRightTrim(l, soFar, w) ==
    LET firstPart == SubSeq(l, 1, w)
    IN IF Len(soFar) > 0 THEN TrimSpaceLeft(firstPart) ELSE firstPart

\* firstPart := line[:wrapWidth], left-trimmed unless it is the first
\* sub-line, then right-trimmed: the sub-line one iteration appends
loopSubLine(l, soFar, w) ==
    LET firstPart == SubSeq(l, 1, w)
        trimmed == IF Len(soFar) > 0 THEN TrimSpaceLeft(firstPart) ELSE firstPart
    IN TrimSpaceRight(trimmed)

\* mutant: the cell at the break index dropped, line[wrapWidth+1:]
loopRemainderDropBreak(l, w) == TrimSpaceLeft(SubSeq(l, w + 2, Len(l)))

\* line = twin.TrimSpaceLeft(line[wrapWidth:])
loopRemainder(l, w) == TrimSpaceLeft(SubSeq(l, w + 1, Len(l)))

\* after the loop: line = twin.TrimSpaceLeft(line) if anything was wrapped
exitLine(l, soFar) == IF Len(soFar) > 0 THEN TrimSpaceLeft(l) ELSE l

\* after the loop: the last sub-line is appended if it is not empty
exitWrapped(rest, soFar) ==
    IF Len(rest) > 0 THEN Append(soFar, TrimSpaceRight(rest)) ELSE soFar

\* if len(line) == 0 { return [][]twin.Cell{{}} }
enterReturnsEmpty(l) == Len(l) = 0

\* wrapLine up to the loop: the empty-line return, the up-front trim
WrapLineEnter ==
    /\ pc = "idle"
    /\ entry' = "wrapLine"
    /\ IF enterReturnsEmpty(input)
       THEN /\ wrapped' = << <<>> >>
            /\ line' = input
            /\ pc' = "done"
       ELSE /\ line' = TrimSpaceRight(input)
            /\ wrapped' = <<>>
            /\ pc' = "loop"
    /\ UNCHANGED <<impl, width, input, wrapWidth>>
    /\ UNCHANGED notWrap

\* one iteration of `for len(line) > width`
WrapLineLoop ==
    /\ pc = "loop"
    /\ Len(line) > width
    /\ IF getWrapWidthPanics(line, width)
       THEN /\ pc' = "panic"
            /\ UNCHANGED <<line, wrapped, wrapWidth>>
       ELSE LET w == getWrapWidth(line, width)
            IN /\ wrapWidth' = w
               /\ wrapped' = Append(wrapped, loopSubLine(line, wrapped, w))
               /\ line' = loopRemainder(line, w)
               /\ pc' = "loop"
    /\ UNCHANGED <<entry, impl, width, input>>
    /\ UNCHANGED notWrap

\* after the loop: the last sub-line, the return
WrapLineExit ==
    /\ pc = "loop"
    /\ ~(Len(line) > width)
    /\ line' = exitLine(line, wrapped)
    /\ wrapped' = exitWrapped(exitLine(line, wrapped), wrapped)
    /\ pc' = "done"
    /\ UNCHANGED <<entry, impl, width, input, wrapWidth>>
    /\ UNCHANGED notWrap

\* getWrapWidth called on its own with the caller's line and width
GetWrapWidthCall ==
    /\ pc = "idle"
    /\ entry' = "getWrapWidth"
    /\ IF getWrapWidthPanics(input, width)
       THEN /\ pc' = "panic"
            /\ UNCHANGED wrapWidth
       ELSE /\ wrapWidth' = getWrapWidth(input, width)
            /\ pc' = "returned"
    /\ UNCHANGED <<impl, width, input, line, wrapped>>
    /\ UNCHANGED notWrap

WrapInit ==
    /\ entry = ""
    /\ pc = "idle"
    /\ impl \in {"scan", "fixed"}
    /\ width \in 1..MaxWidth
    /\ input \in Lines
    /\ line = input
    /\ wrapped = <<>>
    /\ wrapWidth = 0
    /\ cstate = "off" /\ ctor = "" /\ arg = <<>>
    /\ color = [hi |-> 0, lo |-> 0] /\ target = 0 /\ result = [hi |-> 0, lo |-> 0]
    /\ target2 = 0 /\ result2 = [hi |-> 0, lo |-> 0]
    /\ otherColor = [hi |-> 0, lo |-> 0] /\ dist = 0
    /\ PagerOff /\ TokenOff

WrapNext == WrapLineEnter \/ WrapLineLoop \/ WrapLineExit \/ GetWrapWidthCall

SpecWrap == WrapInit /\ [][WrapNext]_vars

\* wrapLine is one synchronous call: once entered, its loop and its exit run
SpecWrapFair == SpecWrap /\ WF_vars(WrapLineLoop) /\ WF_vars(WrapLineExit)

---------------------------------------------------------------------------
(* twin/colors.go: the Color type.                                         *)
(*                                                                         *)
(* A Color is a uint32.  TLC's integers are 32-bit signed, so a uint32 is  *)
(* kept as the record [hi, lo] of its top 8 bits and its low 24 bits.      *)

ColorTypeDefault == 0
ColorType8 == 1
ColorType16 == 2
ColorType256 == 3
ColorType24bit == 4

\* bitwise or of two naturals
RECURSIVE BitOr(_, _)
BitOr(a, b) ==
    IF a = 0 THEN b
    ELSE IF b = 0 THEN a
    ELSE (IF a % 2 = 1 \/ b % 2 = 1 THEN 1 ELSE 0) + 2 * BitOr(a \div 2, b \div 2)

\* uint32(x): the conversion of an integer to 32 bits (two's complement)
Uint32(x) == [hi |-> (x \div (2^24)) % 256, lo |-> x % (2^24)]

\* uint8(x)
Uint8(x) == x % 256

\* return Color(value | (uint32(colorType) << 24))
newColor(colorType, value) == [hi |-> BitOr(value.hi, colorType), lo |-> value.lo]

ColorDefault == newColor(ColorTypeDefault, Uint32(0))

NewColor16(colorNumber0to15) == newColor(ColorType16, Uint32(colorNumber0to15))

NewColor256(colorNumber) == newColor(ColorType256, Uint32(colorNumber))

NewColor24Bit(red, green, blue) ==
    newColor(ColorType24bit, Uint32(red * (2^16) + green * (2^8) + blue))

NewColorHex(rgb) == newColor(ColorType24bit, Uint32(rgb))

\* return ColorType(color >> 24)
ColorType(c) == c.hi

\* return uint32(color & 0xff_ff_ff)
colorValue(c) == c.lo

\* color256ToRGB: the reference palette, as <<r, g, b>>: the 16 standard
\* colours, the 6x6x6 cube for 16..231, the 24 greys for 232..255
standardAnsiColors ==
    << <<0, 0, 0>>, <<128, 0, 0>>, <<0, 128, 0>>, <<128, 128, 0>>,
       <<0, 0, 128>>, <<128, 0, 128>>, <<0, 128, 128>>, <<192, 192, 192>>,
       <<128, 128, 128>>, <<255, 0, 0>>, <<0, 255, 0>>, <<255, 255, 0>>,
       <<0, 0, 255>>, <<255, 0, 255>>, <<0, 255, 255>>, <<255, 255, 255>> >>

cubeComponents == <<0, 95, 135, 175, 215, 255>>

color256ToRGB(color256) ==
    IF color256 < 16 THEN standardAnsiColors[color256 + 1]
    ELSE IF color256 >= 232
    THEN LET gray == (color256 - 232) * 10 + 8 IN <<gray, gray, gray>>
    ELSE LET c == color256 - 16
         IN << cubeComponents[((c \div 36) % 6) + 1],
               cubeComponents[((c \div 6) % 6) + 1],
               cubeComponents[(c % 6) + 1] >>

\* panic(fmt.Errorf("unhandled color type %d", ...))
to24BitPanics(c) ==
    ColorType(c) \notin {ColorType24bit, ColorType8, ColorType16, ColorType256}

to24Bit(c) ==
    IF ColorType(c) = ColorType24bit THEN c
    ELSE LET rgb == color256ToRGB(Uint8(colorValue(c)))
         IN NewColor24Bit(rgb[1], rgb[2], rgb[3])

\* the channels chroma.NewColour is given
Red(c) == (colorValue(c) \div (2^16)) % 256
Green(c) == (colorValue(c) \div (2^8)) % 256
Blue(c) == colorValue(c) % 256

\* Distance panics unless the receiver is a 24 bit colour
DistancePanics(c, other) == ColorType(c) # ColorType24bit

\* Distance: chroma's Colour.Distance is
\*   sqrt((((512+rmean)*r*r)>>8) + 4*g*g + (((767-rmean)*b*b)>>8))
\* and the result is divided by maxDistance.  The model keeps the integer
\* under the square root: the square root and the division by a positive
\* constant keep the order (and equality) of these integers.
Distance(c, other) ==
    LET rmean == (Red(c) + Red(other)) \div 2
        r == Red(c) - Red(other)
        g == Green(c) - Green(other)
        b == Blue(c) - Blue(other)
    IN (((512 + rmean) * r * r) \div 256) + 4 * g * g + (((767 - rmean) * b * b) \div 256)

\* bestDistance := math.MaxFloat64: above every distance
MaxFloat64 == 2147483647

\* panic(...) in downsampleTo: a Default colour or target, an unhandled
\* colour type in to24Bit, an unhandled terminal colour count
downsampleToPanics(c, terminalColorCount) ==
    \/ ColorType(c) = ColorTypeDefault
    \/ terminalColorCount = ColorTypeDefault
    \/ /\ ~(ColorType(c) <= terminalColorCount)
       /\ \/ to24BitPanics(c)
          \/ terminalColorCount \notin {ColorType8, ColorType16, ColorType256}

\* scanRange := 255; switch terminalColorCount { ... }
scanRange(terminalColorCount) ==
    IF terminalColorCount = ColorType8 THEN 7
    ELSE IF terminalColorCount = ColorType16 THEN 15
    ELSE 255

\* mutant: `distance <= bestDistance`, the last of the nearest wins
scanStepLast(tgt, i, best) ==
    LET rgb == color256ToRGB(Uint8(i))
        candidate == NewColor24Bit(rgb[1], rgb[2], rgb[3])
        distance == Distance(tgt, candidate)
    IN IF distance <= best.bestDistance
       THEN [bestMatch |-> i, bestDistance |-> distance]
       ELSE best

\* the body of the scan loop, for candidate index i: best is the pair
\* (bestMatch, bestDistance) before it, the value is the pair after it
scanStep(tgt, i, best) ==
    LET rgb == color256ToRGB(Uint8(i))
        candidate == NewColor24Bit(rgb[1], rgb[2], rgb[3])
        distance == Distance(tgt, candidate)
    IN IF distance < best.bestDistance
       THEN [bestMatch |-> i, bestDistance |-> distance]
       ELSE best

\* for i := first; i <= last; i++ { ... }: scanStep applied in ascending
\* order of i (the range is halved only to keep the evaluation shallow)
RECURSIVE scanLoop(_, _, _, _)
scanLoop(tgt, first, last, best) ==
    IF first > last THEN best
    ELSE IF first = last THEN scanStep(tgt, first, best)
    ELSE LET mid == (first + last) \div 2
             left == scanLoop(tgt, first, mid, best)
         IN IF left.bestMatch <= mid      \* always true: the left half is done first
            THEN scanLoop(tgt, mid + 1, last, left)
            ELSE left

\* bestMatch := 0; bestDistance := math.MaxFloat64; the loop; bestMatch
bestMatchScan(tgt, last) ==
    scanLoop(tgt, 0, last, [bestMatch |-> 0, bestDistance |-> MaxFloat64]).bestMatch

\* mutant: the result always built with NewColor256
downsampleToAlways256(c, terminalColorCount) ==
    IF ColorType(c) <= terminalColorCount THEN c
    ELSE NewColor256(Uint8(bestMatchScan(to24Bit(c), scanRange(terminalColorCount))))

\* mutant: `color.ColorType() < terminalColorCount`
downsampleToStrict(c, terminalColorCount) ==
    IF ColorType(c) < terminalColorCount THEN c
    ELSE LET bestMatch == bestMatchScan(to24Bit(c), scanRange(terminalColorCount))
         IN IF bestMatch <= 15 THEN NewColor16(bestMatch)
            ELSE NewColor256(Uint8(bestMatch))

\* downsampleTo, when it does not panic
downsampleTo(c, terminalColorCount) ==
    IF ColorType(c) <= terminalColorCount THEN c
    ELSE LET bestMatch == bestMatchScan(to24Bit(c), scanRange(terminalColorCount))
         IN IF bestMatch <= 15 THEN NewColor16(bestMatch)
            ELSE NewColor256(Uint8(bestMatch))

---------------------------------------------------------------------------
(* The colour operations as actions: a colour is built, then downsampled.  *)

\* arguments of type int, in and out of 0..15
Color16Args == {0, 7, 8, 15, 16, 255, 256, 2^24, -1}
\* arguments of type uint8
Color256Args == {0, 15, 16, 74, 196, 231, 232, 255}
ChannelArgs == {0, 95, 128, 255}
\* arguments of type uint32, in and out of 0..0xFFFFFF
HexArgs == {0, 660510, 2^24 - 1, 2^24, 5 * (2^24) + 1}
\* terminal colour counts
Targets == {ColorTypeDefault, ColorType8, ColorType16, ColorType256, ColorType24bit}

UseColorDefault ==
    /\ cstate = "none"
    /\ ctor' = "ColorDefault" /\ arg' = <<>> /\ color' = ColorDefault
    /\ cstate' = "built"
    /\ UNCHANGED <<target, result>>
    /\ UNCHANGED c2vars
    /\ UNCHANGED notColor

NewColor16Call ==
    /\ cstate = "none"
    /\ \E n \in Color16Args :
          ctor' = "NewColor16" /\ arg' = <<n>> /\ color' = NewColor16(n)
    /\ cstate' = "built"
    /\ UNCHANGED <<target, result>>
    /\ UNCHANGED c2vars
    /\ UNCHANGED notColor

NewColor256Call ==
    /\ cstate = "none"
    /\ \E n \in Color256Args :
          ctor' = "NewColor256" /\ arg' = <<n>> /\ color' = NewColor256(n)
    /\ cstate' = "built"
    /\ UNCHANGED <<target, result>>
    /\ UNCHANGED c2vars
    /\ UNCHANGED notColor

NewColor24BitCall ==
    /\ cstate = "none"
    /\ \E r \in ChannelArgs, g \in ChannelArgs, b \in ChannelArgs :
          ctor' = "NewColor24Bit" /\ arg' = <<r, g, b>> /\ color' = NewColor24Bit(r, g, b)
    /\ cstate' = "built"
    /\ UNCHANGED <<target, result>>
    /\ UNCHANGED c2vars
    /\ UNCHANGED notColor

NewColorHexCall ==
    /\ cstate = "none"
    /\ \E rgb \in HexArgs :
          ctor' = "NewColorHex" /\ arg' = <<rgb>> /\ color' = NewColorHex(rgb)
    /\ cstate' = "built"
    /\ UNCHANGED <<target, result>>
    /\ UNCHANGED c2vars
    /\ UNCHANGED notColor

DownsampleToCall ==
    /\ cstate = "built"
    /\ \E t \in Targets :
          /\ target' = t
          /\ IF downsampleToPanics(color, t)
             THEN cstate' = "panic" /\ UNCHANGED result
             ELSE cstate' = "returned" /\ result' = downsampleTo(color, t)
    /\ UNCHANGED <<ctor, arg, color>>
    /\ UNCHANGED c2vars
    /\ UNCHANGED notColor

\* the result of downsampleTo downsampled again
DownsampleAgainCall ==
    /\ cstate = "returned"
    /\ \E t \in Targets :
          /\ target2' = t
          /\ IF downsampleToPanics(result, t)
             THEN cstate' = "panic2" /\ UNCHANGED result2
             ELSE cstate' = "returned2" /\ result2' = downsampleTo(result, t)
    /\ UNCHANGED <<ctor, arg, color, target, result, otherColor, dist>>
    /\ UNCHANGED notColor

\* the colours Distance is given as its argument
Others ==
    { ColorDefault, NewColor16(1), NewColor256(74),
      NewColor24Bit(0, 0, 0), NewColor24Bit(255, 255, 255) }

\* color.Distance(otherColor)
DistanceCall ==
    /\ cstate = "built"
    /\ \E o \in Others :
          /\ otherColor' = o
          /\ IF DistancePanics(color, o)
             THEN cstate' = "distPanic" /\ UNCHANGED dist
             ELSE cstate' = "distReturned" /\ dist' = Distance(color, o)
    /\ UNCHANGED <<ctor, arg, color, target, result, target2, result2>>
    /\ UNCHANGED notColor

ColorInit ==
    /\ cstate = "none" /\ ctor = "" /\ arg = <<>>
    /\ color = ColorDefault /\ target = ColorTypeDefault /\ result = ColorDefault
    /\ target2 = ColorTypeDefault /\ result2 = ColorDefault
    /\ otherColor = ColorDefault /\ dist = 0
    /\ entry = "" /\ pc = "off" /\ impl = "scan" /\ width = 1
    /\ input = <<>> /\ line = <<>> /\ wrapped = <<>> /\ wrapWidth = 0
    /\ PagerOff /\ TokenOff

ColorNext ==
    \/ UseColorDefault \/ NewColor16Call \/ NewColor256Call
    \/ NewColor24BitCall \/ NewColorHexCall \/ DownsampleToCall
    \/ DownsampleAgainCall \/ DistanceCall

SpecColor == ColorInit /\ [][ColorNext]_vars

---------------------------------------------------------------------------
(* m/pager.go: the Pager.                                                  *)

\* the largest scroll position (line number) the model follows
MaxScroll == 3
\* the largest left column the model follows
MaxColumn == 32
\* the longest search string the model follows
MaxSearchLen == 1
\* the height p.screen.Size() reports
ScreenHeight == 3

_Viewing == 0
_Searching == 1
_NotFound == 2

\* p.reader: the Reader NewPager was given, or _HelpReader
DocReader == "r"
_HelpReader == "_HelpReader"

\* the plain text of the two readers' lines, a line being a sequence of runes
DocLines == << <<"n">>, <<"q", "n">>, <<"x">> >>
HelpLines == << <<"q">>, <<"w">> >>
ReaderLines(reader) == IF reader = _HelpReader THEN HelpLines ELSE DocLines

\* Reader.GetLineCount()
GetLineCount(reader) == Len(ReaderLines(reader))

\* Reader.GetLine(lineNumberOneBased): nil (<<>>) outside the lines, else <<line>>
GetLine(reader, lineNumberOneBased) ==
    IF lineNumberOneBased \in 1..GetLineCount(reader)
    THEN <<ReaderLines(reader)[lineNumberOneBased]>>
    ELSE <<>>

\* scrollPosition{}: the zero value; the model keeps lineNumberOneBased
ZeroScrollPosition == 0

\* scrollPosition.PreviousLine(n) / NextLine(n); clipping is left to redraw
PreviousLine(pos, n) == pos - n
NextLine(pos, n) == pos + n

\* unicode.IsUpper, unicode.ToLower on the runes of the model
IsUpper(char) == char \in {"N", "G"}
ToLower(char) == IF char = "N" THEN "n" ELSE IF char = "G" THEN "g" ELSE char

\* regexp.Compile on a string of letters and '?': a '?' needs something to
\* repeat, "x??" is the lazy form, a third '?' is a nested repetition
RECURSIVE compilesFrom(_, _, _)
compilesFrom(s, i, marks) ==
    IF i > Len(s) THEN TRUE
    ELSE IF s[i] # "?" THEN compilesFrom(s, i + 1, 0)
    ELSE IF marks \in {0, 1} THEN compilesFrom(s, i + 1, marks + 1)
    ELSE FALSE

regexpCompiles(s) == compilesFrom(s, 1, -1)

\* the atoms of a compiled pattern: each letter, optional when a '?' follows
RECURSIVE regexpAtoms(_, _)
regexpAtoms(s, i) ==
    IF i > Len(s) THEN <<>>
    ELSE IF s[i] = "?" THEN regexpAtoms(s, i + 1)
    ELSE <<[char |-> s[i], optional |-> (i < Len(s) /\ s[i + 1] = "?")]>>
             \o regexpAtoms(s, i + 1)

\* the atoms of regexp.QuoteMeta(s): every rune stands for itself
quotedAtoms(s) == [i \in 1..Len(s) |-> [char |-> s[i], optional |-> FALSE]]

\* toPattern: nil (<<>>) for the empty string; case insensitive unless there
\* is an upper case rune; a regexp if it compiles, else the string verbatim
toPattern(compileMe) ==
    IF Len(compileMe) = 0 THEN <<>>
    ELSE <<[ignoreCase |-> ~(\E i \in 1..Len(compileMe) : IsUpper(compileMe[i])),
            atoms |-> IF regexpCompiles(compileMe)
                      THEN regexpAtoms(compileMe, 1)
                      ELSE quotedAtoms(compileMe)]>>

\* the pattern's atoms from the k-th on match the text at index i
RECURSIVE matchesAt(_, _, _, _)
matchesAt(pattern, k, text, i) ==
    IF k > Len(pattern.atoms) THEN TRUE
    ELSE \/ (pattern.atoms[k].optional /\ matchesAt(pattern, k + 1, text, i))
         \/ /\ i <= Len(text)
            /\ IF pattern.ignoreCase
               THEN ToLower(text[i]) = ToLower(pattern.atoms[k].char)
               ELSE text[i] = pattern.atoms[k].char
            /\ matchesAt(pattern, k + 1, text, i + 1)

\* regexp.MatchString: the pattern matches somewhere in the text
MatchString(pattern, text) ==
    \E i \in 1..(Len(text) + 1) : matchesAt(pattern, 1, text, i)

\* removeLastChar
removeLastChar(s) == IF Len(s) = 0 THEN s ELSE SubSeq(s, 1, Len(s) - 1)

\* NewPager(r)
NewPager ==
    [reader |-> DocReader, quit |-> FALSE, scrollPosition |-> ZeroScrollPosition,
     leftColumnZeroBased |-> 0, mode |-> _Viewing, searchString |-> <<>>,
     searchPattern |-> <<>>, isShowingHelp |-> FALSE, preHelpState |-> <<>>,
     ShowLineNumbers |-> TRUE, WrapLongLines |-> FALSE]

\* Quit dereferences p.preHelpState
QuitPanics(p) == p.isShowingHelp /\ p.preHelpState = <<>>

\* mutant: Quit leaves the help screen where help was scrolled to
QuitKeepsHelpPosition(p) ==
    IF ~p.isShowingHelp THEN [p EXCEPT !.quit = TRUE]
    ELSE [p EXCEPT !.isShowingHelp = FALSE,
                   !.reader = p.preHelpState[1].reader,
                   !.preHelpState = <<>>]

\* Quit leaves the help screen or quits the pager
Quit(p) ==
    IF ~p.isShowingHelp THEN [p EXCEPT !.quit = TRUE]
    ELSE [p EXCEPT !.isShowingHelp = FALSE,
                   !.reader = p.preHelpState[1].reader,
                   !.scrollPosition = p.preHelpState[1].scrollPosition,
                   !.leftColumnZeroBased = p.preHelpState[1].leftColumnZeroBased,
                   !.preHelpState = <<>>]

\* findFirstHit's loop, when PreviousLine / NextLine move searchPosition
RECURSIVE findFirstHitLoop(_, _, _)
findFirstHitLoop(p, searchPosition, backwards) ==
    LET l == GetLine(p.reader, searchPosition)
    IN IF l = <<>> THEN <<>>
       ELSE IF MatchString(p.searchPattern[1], l[1]) THEN <<searchPosition>>
       ELSE findFirstHitLoop(p, IF backwards THEN PreviousLine(searchPosition, 1)
                                             ELSE NextLine(searchPosition, 1),
                             backwards)

\* findFirstHit calls searchPosition.PreviousLine(1) / NextLine(1) and drops
\* what they return: unless they move their receiver (advances), the loop
\* looks at the same line forever once that line is there and does not match
findFirstHitHangs(p, startPosition, backwards, advances) ==
    LET l == GetLine(p.reader, startPosition)
    IN /\ ~advances
       /\ l # <<>>
       /\ ~MatchString(p.searchPattern[1], l[1])

\* findFirstHit: nil (<<>>) or the position of the first hit
findFirstHit(p, startPosition, backwards, advances) ==
    IF advances THEN findFirstHitLoop(p, startPosition, backwards)
    ELSE LET l == GetLine(p.reader, startPosition)
         IN IF l # <<>> /\ MatchString(p.searchPattern[1], l[1])
            THEN <<startPosition>> ELSE <<>>

\* what the code of a handler asks of what is not in these sources:
\* isVisible's answer, getLastVisiblePosition's answer, and whether
\* PreviousLine / NextLine move their receiver
Oracles(p) ==
    [visible : BOOLEAN,
     lastVisible : {p.scrollPosition, p.scrollPosition + ScreenHeight - 2},
     advances : BOOLEAN]

scrollToSearchHitsHangs(p, o) ==
    /\ p.searchPattern # <<>>
    /\ findFirstHitHangs(p, p.scrollPosition, FALSE, o.advances)

scrollToSearchHits(p, o) ==
    IF p.searchPattern = <<>> THEN p
    ELSE LET firstHitPosition == findFirstHit(p, p.scrollPosition, FALSE, o.advances)
         IN IF firstHitPosition = <<>> THEN p
            ELSE IF o.visible THEN p
            ELSE [p EXCEPT !.scrollPosition = firstHitPosition[1]]

\* scrollToEnd
scrollToEnd(p) == [p EXCEPT !.scrollPosition = GetLineCount(p.reader)]

\* where scrollToNextSearchHit starts: below the bottom of the screen, or,
\* after a miss, at the top
nextFirstSearchPosition(p, o) ==
    IF p.mode = _Viewing THEN NextLine(o.lastVisible, 1) ELSE 1

scrollToNextSearchHitHangs(p, o) ==
    /\ p.searchPattern # <<>>
    /\ GetLineCount(p.reader) # 0
    /\ findFirstHitHangs(p, nextFirstSearchPosition(p, o), FALSE, o.advances)

scrollToNextSearchHit(p, o) ==
    IF p.searchPattern = <<>> \/ GetLineCount(p.reader) = 0 THEN p
    ELSE LET viewing == [p EXCEPT !.mode = _Viewing]
             firstHitPosition ==
                 findFirstHit(viewing, nextFirstSearchPosition(p, o), FALSE, o.advances)
         IN IF firstHitPosition = <<>> THEN [viewing EXCEPT !.mode = _NotFound]
            ELSE [viewing EXCEPT !.scrollPosition = firstHitPosition[1]]

\* where scrollToPreviousSearchHit starts: above the top of the screen; after
\* a miss firstSearchPosition is declared and never assigned, the zero value
previousFirstSearchPosition(p) ==
    IF p.mode = _Viewing THEN PreviousLine(p.scrollPosition, 1) ELSE ZeroScrollPosition

scrollToPreviousSearchHitHangs(p, o) ==
    /\ p.searchPattern # <<>>
    /\ GetLineCount(p.reader) # 0
    /\ findFirstHitHangs(p, previousFirstSearchPosition(p), TRUE, o.advances)

scrollToPreviousSearchHit(p, o) ==
    IF p.searchPattern = <<>> \/ GetLineCount(p.reader) = 0 THEN p
    ELSE LET viewing == IF p.mode = _NotFound
                        THEN scrollToEnd([p EXCEPT !.mode = _Viewing])
                        ELSE p
             firstHitPosition ==
                 findFirstHit(viewing, previousFirstSearchPosition(p), TRUE, o.advances)
         IN IF firstHitPosition = <<>> THEN [viewing EXCEPT !.mode = _NotFound]
            ELSE [viewing EXCEPT !.scrollPosition = firstHitPosition[1]]

updateSearchPatternHangs(p, o) ==
    scrollToSearchHitsHangs([p EXCEPT !.searchPattern = toPattern(p.searchString)], o)

updateSearchPattern(p, o) ==
    scrollToSearchHits([p EXCEPT !.searchPattern = toPattern(p.searchString)], o)

onSearchKeyHangs(p, key, o) ==
    /\ key \in {"KeyBackspace", "KeyDelete"}
    /\ Len(p.searchString) # 0
    /\ updateSearchPatternHangs([p EXCEPT !.searchString = removeLastChar(p.searchString)], o)

onSearchKey(p, key, o) ==
    CASE key \in {"KeyEscape", "KeyEnter"} -> [p EXCEPT !.mode = _Viewing]
      [] key \in {"KeyBackspace", "KeyDelete"} ->
            IF Len(p.searchString) = 0 THEN p
            ELSE updateSearchPattern(
                     [p EXCEPT !.searchString = removeLastChar(p.searchString)], o)
      [] key = "KeyUp" ->
            [p EXCEPT !.scrollPosition = PreviousLine(p.scrollPosition, 1),
                      !.mode = _Viewing]
      [] key = "KeyDown" ->
            [p EXCEPT !.scrollPosition = NextLine(p.scrollPosition, 1),
                      !.mode = _Viewing]
      [] key = "KeyPgUp" ->
            [p EXCEPT !.scrollPosition = PreviousLine(p.scrollPosition, ScreenHeight - 1),
                      !.mode = _Viewing]
      [] key = "KeyPgDown" ->
            [p EXCEPT !.scrollPosition = NextLine(p.scrollPosition, ScreenHeight - 1),
                      !.mode = _Viewing]
      [] OTHER -> p

\* mutant: scrolling right also hides the line numbers' column in one step
moveRightAtOnce(p, delta) ==
    IF p.leftColumnZeroBased = 0 /\ delta < 0 THEN [p EXCEPT !.ShowLineNumbers = TRUE]
    ELSE LET moved == p.leftColumnZeroBased + delta
         IN [p EXCEPT !.ShowLineNumbers = IF delta > 0 THEN FALSE ELSE @,
                      !.leftColumnZeroBased = IF moved < 0 THEN 0 ELSE moved]

moveRight(p, delta) ==
    IF p.ShowLineNumbers /\ delta > 0 THEN [p EXCEPT !.ShowLineNumbers = FALSE]
    ELSE IF p.leftColumnZeroBased = 0 /\ delta < 0 THEN [p EXCEPT !.ShowLineNumbers = TRUE]
    ELSE LET moved == p.leftColumnZeroBased + delta
         IN [p EXCEPT !.leftColumnZeroBased = IF moved < 0 THEN 0 ELSE moved]

Modes == {_Viewing, _Searching, _NotFound}

onKeyPanics(p, key) ==
    /\ p.mode # _Searching
    /\ \/ p.mode \notin {_Viewing, _NotFound}
       \/ (key = "KeyEscape" /\ QuitPanics(p))

onKeyHangs(p, key, o) == p.mode = _Searching /\ onSearchKeyHangs(p, key, o)

onKey(p, key, o) ==
    IF p.mode = _Searching THEN onSearchKey(p, key, o)
    ELSE LET v == [p EXCEPT !.mode = _Viewing]
         IN CASE key = "KeyEscape" -> Quit(v)
              [] key = "KeyUp" ->
                    [v EXCEPT !.scrollPosition = PreviousLine(v.scrollPosition, 1)]
              [] key \in {"KeyDown", "KeyEnter"} ->
                    [v EXCEPT !.scrollPosition = NextLine(v.scrollPosition, 1)]
              [] key = "KeyRight" -> moveRight(v, 16)
              [] key = "KeyLeft" -> moveRight(v, -16)
              [] key = "KeyHome" -> [v EXCEPT !.scrollPosition = ZeroScrollPosition]
              [] key = "KeyEnd" -> scrollToEnd(v)
              [] key = "KeyPgDown" ->
                    [v EXCEPT !.scrollPosition = NextLine(v.scrollPosition, ScreenHeight - 1)]
              [] key = "KeyPgUp" ->
                    [v EXCEPT !.scrollPosition = PreviousLine(v.scrollPosition, ScreenHeight - 1)]
              [] OTHER -> v

\* mutant: in a search 'w' is typed and toggles wrapping as well
onSearchRuneAlsoWraps(p, char, o) ==
    LET typed == updateSearchPattern(
                     [p EXCEPT !.searchString = Append(p.searchString, char)], o)
    IN IF char = "w" THEN [typed EXCEPT !.WrapLongLines = ~p.WrapLongLines] ELSE typed

onSearchRuneHangs(p, char, o) ==
    updateSearchPatternHangs([p EXCEPT !.searchString = Append(p.searchString, char)], o)

onSearchRune(p, char, o) ==
    updateSearchPattern([p EXCEPT !.searchString = Append(p.searchString, char)], o)

\* onRune's case '?'
openHelp(p) ==
    IF ~p.isShowingHelp
    THEN [p EXCEPT !.preHelpState = <<[reader |-> p.reader,
                                       scrollPosition |-> p.scrollPosition,
                                       leftColumnZeroBased |-> p.leftColumnZeroBased]>>,
                   !.reader = _HelpReader,
                   !.scrollPosition = ZeroScrollPosition,
                   !.leftColumnZeroBased = 0,
                   !.isShowingHelp = TRUE]
    ELSE p

onRunePanics(p, char) ==
    /\ p.mode # _Searching
    /\ \/ p.mode \notin {_Viewing, _NotFound}
       \/ (char = "q" /\ QuitPanics(p))

onRuneHangs(p, char, o) ==
    IF p.mode = _Searching THEN onSearchRuneHangs(p, char, o)
    ELSE \/ (char = "n" /\ scrollToNextSearchHitHangs(p, o))
         \/ (char \in {"p", "N"} /\ scrollToPreviousSearchHitHangs(p, o))

onRune(p, char, o) ==
    IF p.mode = _Searching THEN onSearchRune(p, char, o)
    ELSE CASE char = "q" -> Quit(p)
           [] char = "?" -> openHelp(p)
           [] char \in {"k", "y"} ->
                 [p EXCEPT !.scrollPosition = PreviousLine(p.scrollPosition, 1)]
           [] char \in {"j", "e"} ->
                 [p EXCEPT !.scrollPosition = NextLine(p.scrollPosition, 1)]
           [] char = "l" -> moveRight(p, 16)
           [] char = "h" -> moveRight(p, -16)
           [] char \in {"<", "g"} -> [p EXCEPT !.scrollPosition = ZeroScrollPosition]
           [] char \in {">", "G"} -> scrollToEnd(p)
           [] char \in {"f", " "} ->
                 [p EXCEPT !.scrollPosition = NextLine(p.scrollPosition, ScreenHeight - 1)]
           [] char = "b" ->
                 [p EXCEPT !.scrollPosition = PreviousLine(p.scrollPosition, ScreenHeight - 1)]
           [] char = "u" ->
                 [p EXCEPT !.scrollPosition = PreviousLine(p.scrollPosition, ScreenHeight \div 2)]
           [] char = "d" ->
                 [p EXCEPT !.scrollPosition = NextLine(p.scrollPosition, ScreenHeight \div 2)]
           [] char = "/" ->
                 [p EXCEPT !.mode = _Searching, !.searchString = <<>>, !.searchPattern = <<>>]
           [] char = "n" -> scrollToNextSearchHit(p, o)
           [] char \in {"p", "N"} -> scrollToPreviousSearchHit(p, o)
           [] char = "w" -> [p EXCEPT !.WrapLongLines = ~p.WrapLongLines]
           [] OTHER -> p

\* the main loop's case twin.EventMouse
onMouse(p, buttons) ==
    CASE buttons = "MouseWheelUp" ->
            [p EXCEPT !.scrollPosition = PreviousLine(p.scrollPosition, 1)]
      [] buttons = "MouseWheelDown" ->
            [p EXCEPT !.scrollPosition = NextLine(p.scrollPosition, 1)]
      [] buttons = "MouseWheelLeft" -> moveRight(p, -16)
      [] buttons = "MouseWheelRight" -> moveRight(p, 16)
      [] OTHER -> p

\* the events the model sends to the main loop
Keys ==
    {"KeyEscape", "KeyEnter", "KeyBackspace", "KeyDelete", "KeyUp", "KeyDown",
     "KeyRight", "KeyLeft", "KeyHome", "KeyEnd", "KeyPgUp", "KeyPgDown", "KeyUnhandled"}
Runes ==
    {"q", "?", "k", "j", "l", "h", "<", ">", "f", "b", "u", "d", "/", "n", "p", "N",
     "w", "x"}
\* the runes the model types into a search
SearchRunes == {"q", "?", "n", "w"}
MouseButtons == {"MouseWheelUp", "MouseWheelDown", "MouseWheelLeft", "MouseWheelRight"}

\* a handler that asks nothing of what is not in these sources
NotAsked(p) == [visible |-> FALSE, lastVisible |-> p.scrollPosition, advances |-> TRUE]

KeyOracles(p, key) ==
    IF p.mode = _Searching /\ key \in {"KeyBackspace", "KeyDelete"}
    THEN {o \in Oracles(p) : o.lastVisible = p.scrollPosition} ELSE {NotAsked(p)}

RuneOracles(p, char) ==
    IF p.mode = _Searching
    THEN {o \in Oracles(p) : o.lastVisible = p.scrollPosition}
    ELSE IF char = "n" THEN {o \in Oracles(p) : ~o.visible}
    ELSE IF char \in {"p", "N"}
    THEN {o \in Oracles(p) : ~o.visible /\ o.lastVisible = p.scrollPosition}
    ELSE {NotAsked(p)}

\* the pager states the model follows
InBounds(p) ==
    /\ p.scrollPosition \in 0..MaxScroll
    /\ p.leftColumnZeroBased <= MaxColumn
    /\ Len(p.searchString) <= MaxSearchLen

\* one lap of the main loop with event e: the handler panics, never
\* returns, or leaves the pager as `after` (and the loop ends on p.quit)
Handled(e, panics, hangs, after) ==
    /\ ev' = e
    /\ IF panics THEN ploop' = "panic" /\ pager' = pager
       ELSE IF hangs THEN ploop' = "hung" /\ pager' = pager
       ELSE /\ InBounds(after)
            /\ pager' = after
            /\ ploop' = IF after.quit THEN "exited" ELSE "running"
    /\ UNCHANGED notPager

OnKeyEvent ==
    /\ ploop = "running"
    /\ \E key \in Keys : \E o \in KeyOracles(pager, key) :
          Handled([type |-> "key", code |-> key],
                  onKeyPanics(pager, key), onKeyHangs(pager, key, o), onKey(pager, key, o))

OnRuneEvent ==
    /\ ploop = "running"
    /\ \E char \in (IF pager.mode = _Searching THEN SearchRunes ELSE Runes) :
       \E o \in RuneOracles(pager, char) :
          Handled([type |-> "rune", code |-> char],
                  onRunePanics(pager, char), onRuneHangs(pager, char, o),
                  onRune(pager, char, o))

OnMouseEvent ==
    /\ ploop = "running"
    /\ \E buttons \in MouseButtons :
          Handled([type |-> "mouse", code |-> buttons], FALSE, FALSE, onMouse(pager, buttons))

\* resize, more lines, spinner: the loop takes another lap
OnOtherEvent ==
    /\ ploop = "running"
    /\ Handled([type |-> "other", code |-> ""], FALSE, FALSE, pager)

\* p.redraw(spinner), when no event waits: it clips the scroll position
\* ("Clipping is done in _Redraw()"); any position it may leave
Redraw ==
    /\ ploop = "running"
    /\ \E s \in 0..MaxScroll :
          Handled([type |-> "redraw", code |-> ""], FALSE, FALSE,
                  [pager EXCEPT !.scrollPosition = s])

PagerInit ==
    /\ pager = NewPager /\ ev = NoEvent /\ ploop = "running"
    /\ entry = "" /\ pc = "off" /\ impl = "scan" /\ width = 1
    /\ input = <<>> /\ line = <<>> /\ wrapped = <<>> /\ wrapWidth = 0
    /\ cstate = "off" /\ ctor = "" /\ arg = <<>>
    /\ color = [hi |-> 0, lo |-> 0] /\ target = 0 /\ result = [hi |-> 0, lo |-> 0]
    /\ target2 = 0 /\ result2 = [hi |-> 0, lo |-> 0]
    /\ otherColor = [hi |-> 0, lo |-> 0] /\ dist = 0
    /\ TokenOff

PagerNext == OnKeyEvent \/ OnRuneEvent \/ OnMouseEvent \/ OnOtherEvent \/ Redraw

SpecPager == PagerInit /\ [][PagerNext]_vars

---------------------------------------------------------------------------
(* m/ansiTokenizer.go: TokensFromString and consumeCompositeColor.  Only  *)
(* their test is in the sources; they are modelled from their             *)
(* specification: a machine with the states Plain and Collecting.         *)

\* the most pieces (visible characters, escape sequences) a line is made of
MaxPieces == 3

\* the characters of a line are numbers: a character's code point or, for a
\* decimal parameter n of an escape sequence, taken as one character,
\* Numeral(n)
Esc == 27
Bracket == 91
Separator == 59
StyleTerminator == 109
EraseTerminator == 75
LetterA == 97
LetterB == 98
NumeralBase == 1000
Numeral(n) == NumeralBase + n
IsNumeral(char) == char >= NumeralBase
\* the bytes that end a sequence: 'm' for a style-setting one, 'K' for one
\* that has nothing to do with styling
Terminators == {StyleTerminator, EraseTerminator}

\* CSI parameters ... terminator
Csi(params, terminator) == <<Esc, Bracket>> \o params \o <<terminator>>

WellFormedPieces ==
    { <<LetterA>>, <<LetterB>>,
      Csi(<<Numeral(1)>>, StyleTerminator),
      Csi(<<Numeral(0)>>, StyleTerminator),
      Csi(<<Numeral(31)>>, StyleTerminator),
      Csi(<<Numeral(38), Separator, Numeral(5), Separator, Numeral(74)>>, StyleTerminator),
      Csi(<<Numeral(1), Separator, Numeral(48), Separator, Numeral(2), Separator,
            Numeral(10), Separator, Numeral(20), Separator, Numeral(30)>>, StyleTerminator),
      Csi(<<>>, EraseTerminator) }

\* bold, then a composite colour whose palette index is missing
BoldThenTruncated ==
    Csi(<<Numeral(1), Separator, Numeral(38), Separator, Numeral(5)>>, StyleTerminator)

MalformedPieces ==
    { Csi(<<Numeral(38), Separator, Numeral(4)>>, StyleTerminator),
      BoldThenTruncated,
      Csi(<<Numeral(38), Separator, Numeral(2), Separator, Numeral(10), Separator,
            Numeral(20)>>, StyleTerminator),
      Csi(<<Numeral(1), Separator, Numeral(99)>>, StyleTerminator),
      <<Esc, LetterA>> }

\* a sequence the end of the line cuts short
OpenPieces == { <<Esc, Bracket, Numeral(1)>>, <<Esc>> }

ClosedPieces == WellFormedPieces \cup MalformedPieces

\* the lines of the model: closed pieces, then possibly an open one
PieceSeqs ==
    UNION { [1..n -> ClosedPieces] : n \in 0..MaxPieces }
    \cup UNION { { Append(ps, o) : ps \in [1..n -> ClosedPieces], o \in OpenPieces } :
                 n \in 0..(MaxPieces - 1) }

\* the tcell-era Style: an attribute and the two colours
StyleDefault == [bold |-> FALSE, fg |-> ColorDefault, bg |-> ColorDefault]

\* numbers[index], index counted from 0
NumberAt(numbers, index) == numbers[index + 1]

consumeFailed == [newIndex |-> -1, color |-> <<>>, failed |-> TRUE]

\* mutant: the 24 bit form answers the index after red
consumeCompositeColorShort(numbers, index) ==
    IF NumberAt(numbers, index) \notin {38, 48} THEN consumeFailed
    ELSE IF index + 1 >= Len(numbers) THEN consumeFailed
    ELSE IF NumberAt(numbers, index + 1) = 5
    THEN IF index + 2 >= Len(numbers) THEN consumeFailed
         ELSE [newIndex |-> index + 3,
               color |-> <<NewColor256(NumberAt(numbers, index + 2))>>,
               failed |-> FALSE]
    ELSE IF NumberAt(numbers, index + 1) = 2
    THEN IF index + 4 >= Len(numbers) THEN consumeFailed
         ELSE [newIndex |-> index + 3,
               color |-> <<NewColor24Bit(NumberAt(numbers, index + 2),
                                         NumberAt(numbers, index + 3),
                                         NumberAt(numbers, index + 4))>>,
               failed |-> FALSE]
    ELSE consumeFailed

\* consumeCompositeColor: 38|48, then 5 and a palette index, or 2 and red,
\* green, blue; the index of the first parameter not consumed, the colour,
\* or an error and no colour
consumeCompositeColor(numbers, index) ==
    IF NumberAt(numbers, index) \notin {38, 48} THEN consumeFailed
    ELSE IF index + 1 >= Len(numbers) THEN consumeFailed
    ELSE IF NumberAt(numbers, index + 1) = 5
    THEN IF index + 2 >= Len(numbers) THEN consumeFailed
         ELSE [newIndex |-> index + 3,
               color |-> <<NewColor256(NumberAt(numbers, index + 2))>>,
               failed |-> FALSE]
    ELSE IF NumberAt(numbers, index + 1) = 2
    THEN IF index + 4 >= Len(numbers) THEN consumeFailed
         ELSE [newIndex |-> index + 5,
               color |-> <<NewColor24Bit(NumberAt(numbers, index + 2),
                                         NumberAt(numbers, index + 3),
                                         NumberAt(numbers, index + 4))>>,
               failed |-> FALSE]
    ELSE consumeFailed

\* the parameters of a style-setting sequence, read left to right from
\* index on: the style they leave and whether one of them failed
RECURSIVE updateStyleFrom(_, _, _)
updateStyleFrom(numbers, index, style) ==
    IF index >= Len(numbers) THEN [style |-> style, failed |-> FALSE]
    ELSE LET number == NumberAt(numbers, index)
         IN CASE number = 0 -> updateStyleFrom(numbers, index + 1, StyleDefault)
              [] number = 1 ->
                    updateStyleFrom(numbers, index + 1, [style EXCEPT !.bold = TRUE])
              [] number = 31 ->
                    updateStyleFrom(numbers, index + 1, [style EXCEPT !.fg = NewColor16(1)])
              [] number \in {38, 48} ->
                    LET consumed == consumeCompositeColor(numbers, index)
                    IN IF consumed.failed THEN [style |-> style, failed |-> TRUE]
                       ELSE updateStyleFrom(numbers, consumed.newIndex,
                                IF number = 38
                                THEN [style EXCEPT !.fg = consumed.color[1]]
                                ELSE [style EXCEPT !.bg = consumed.color[1]])
              [] OTHER -> [style |-> style, failed |-> TRUE]

\* mutant: a failing sequence keeps what its earlier parameters did
updateStyleKeepsEarlier(style, numbers) == updateStyleFrom(numbers, 0, style)

\* a failing sequence contributes no style change at all
updateStyle(style, numbers) ==
    LET updated == updateStyleFrom(numbers, 0, style)
    IN IF updated.failed THEN [style |-> style, failed |-> TRUE] ELSE updated

\* the numeric parameter list of a collected sequence
RECURSIVE parameters(_)
parameters(seq) ==
    IF seq = <<>> THEN <<>>
    ELSE IF IsNumeral(Head(seq)) THEN <<Head(seq) - NumeralBase>> \o parameters(Tail(seq))
    ELSE parameters(Tail(seq))

\* mutant: a visible character gives a cell and nothing in the plain string
emitCellOnly(t, char) ==
    [t EXCEPT !.cells = Append(t.cells, [Rune |-> char, Style |-> t.style]),
              !.pos = t.pos + 1]

\* Plain: the character is appended as a Cell with the current Style, and
\* to the plain string
emitCell(t, char) ==
    [t EXCEPT !.cells = Append(t.cells, [Rune |-> char, Style |-> t.style]),
              !.plain = Append(t.plain, char),
              !.pos = t.pos + 1]

\* Plain: the escape introducer starts collecting
startCollecting(t) == [t EXCEPT !.state = "Collecting", !.seq = <<Esc>>, !.pos = t.pos + 1]

\* Collecting: what may follow what has been collected
continues(seq, char) ==
    IF seq = <<Esc>> THEN char = Bracket
    ELSE IsNumeral(char) \/ char = Separator

terminates(seq, char) == Len(seq) >= 2 /\ char \in Terminators

collect(t, char) == [t EXCEPT !.seq = Append(t.seq, char), !.pos = t.pos + 1]

\* Collecting: a terminator; a style-setting sequence updates the Style or
\* fails and is logged, any other sequence is ignored
terminate(t, char) ==
    LET updated == IF char = StyleTerminator
                   THEN updateStyle(t.style, parameters(t.seq))
                   ELSE [style |-> t.style, failed |-> FALSE]
    IN [t EXCEPT !.state = "Plain", !.seq = <<>>, !.pos = t.pos + 1,
                 !.style = updated.style,
                 !.diagnostics = IF updated.failed THEN t.diagnostics + 1 ELSE t.diagnostics]

\* Collecting: an unrecognized character, or the end of the line: the
\* sequence is discarded and logged
discard(t) ==
    [t EXCEPT !.state = "Plain", !.seq = <<>>,
              !.pos = IF t.pos <= Len(t.input) THEN t.pos + 1 ELSE t.pos,
              !.diagnostics = t.diagnostics + 1]

RECURSIVE Concat(_)
Concat(ps) == IF ps = <<>> THEN <<>> ELSE Head(ps) \o Concat(Tail(ps))

\* TokensFromString(logger, s) is called
TokensFromStringStart(ps) ==
    [state |-> "Plain", pieces |-> ps, input |-> Concat(ps), pos |-> 1, seq |-> <<>>,
     style |-> StyleDefault, cells |-> <<>>, plain |-> <<>>, diagnostics |-> 0]

TokenizeVisible ==
    /\ tk.state = "Plain" /\ tk.pos <= Len(tk.input)
    /\ tk.input[tk.pos] # Esc
    /\ tk' = emitCell(tk, tk.input[tk.pos])
    /\ UNCHANGED cc /\ UNCHANGED notToken

TokenizeIntroducer ==
    /\ tk.state = "Plain" /\ tk.pos <= Len(tk.input)
    /\ tk.input[tk.pos] = Esc
    /\ tk' = startCollecting(tk)
    /\ UNCHANGED cc /\ UNCHANGED notToken

TokenizeCollect ==
    /\ tk.state = "Collecting" /\ tk.pos <= Len(tk.input)
    /\ continues(tk.seq, tk.input[tk.pos])
    /\ tk' = collect(tk, tk.input[tk.pos])
    /\ UNCHANGED cc /\ UNCHANGED notToken

TokenizeTerminator ==
    /\ tk.state = "Collecting" /\ tk.pos <= Len(tk.input)
    /\ ~continues(tk.seq, tk.input[tk.pos])
    /\ terminates(tk.seq, tk.input[tk.pos])
    /\ tk' = terminate(tk, tk.input[tk.pos])
    /\ UNCHANGED cc /\ UNCHANGED notToken

TokenizeDiscard ==
    /\ tk.state = "Collecting"
    /\ \/ tk.pos > Len(tk.input)
       \/ /\ tk.pos <= Len(tk.input)
          /\ ~continues(tk.seq, tk.input[tk.pos])
          /\ ~terminates(tk.seq, tk.input[tk.pos])
    /\ tk' = discard(tk)
    /\ UNCHANGED cc /\ UNCHANGED notToken

\* the end of the line in Plain: the cells and the plain string are returned
TokenizeReturn ==
    /\ tk.state = "Plain" /\ tk.pos > Len(tk.input)
    /\ tk' = [tk EXCEPT !.state = "done"]
    /\ UNCHANGED cc /\ UNCHANGED notToken

\* the parameter lists consumeCompositeColor is called with
ParamLists ==
    { <<38, 5, 74>>, <<38, 2, 10, 20, 30>>, <<48, 5, 0>>, <<1, 38, 5, 74, 1>>,
      <<48, 2, 255, 0, 128, 38, 5, 255>>, <<29>>, <<38, 4>>, <<38>>, <<38, 5>>,
      <<38, 2, 10, 20>>, <<1, 48, 2>> }

ConsumeCompositeColorCall ==
    /\ cc.state = "idle"
    /\ \E numbers \in ParamLists : \E index \in 0..(Len(numbers) - 1) :
          LET consumed == consumeCompositeColor(numbers, index)
          IN cc' = [state |-> "returned", numbers |-> numbers, index |-> index,
                    newIndex |-> consumed.newIndex, color |-> consumed.color,
                    failed |-> consumed.failed]
    /\ UNCHANGED tk /\ UNCHANGED notToken

TokenInit ==
    /\ \/ (\E ps \in PieceSeqs : tk = TokensFromStringStart(ps)) /\ cc = NoCall
       \/ tk = NoTokens /\ cc = [NoCall EXCEPT !.state = "idle"]
    /\ PagerOff
    /\ entry = "" /\ pc = "off" /\ impl = "scan" /\ width = 1
    /\ input = <<>> /\ line = <<>> /\ wrapped = <<>> /\ wrapWidth = 0
    /\ cstate = "off" /\ ctor = "" /\ arg = <<>>
    /\ color = [hi |-> 0, lo |-> 0] /\ target = 0 /\ result = [hi |-> 0, lo |-> 0]
    /\ target2 = 0 /\ result2 = [hi |-> 0, lo |-> 0]
    /\ otherColor = [hi |-> 0, lo |-> 0] /\ dist = 0

TokenNext ==
    \/ TokenizeVisible \/ TokenizeIntroducer \/ TokenizeCollect
    \/ TokenizeTerminator \/ TokenizeDiscard \/ TokenizeReturn
    \/ ConsumeCompositeColorCall

SpecToken == TokenInit /\ [][TokenNext]_vars

\* TokensFromString is one synchronous call: it runs to its return
SpecTokenFair ==
    /\ SpecToken
    /\ WF_vars(TokenizeVisible \/ TokenizeIntroducer \/ TokenizeCollect
               \/ TokenizeTerminator \/ TokenizeDiscard \/ TokenizeReturn)

---------------------------------------------------------------------------
(* The units together.                                                     *)

Init == WrapInit \/ ColorInit \/ PagerInit \/ TokenInit

Next == WrapNext \/ ColorNext \/ PagerNext \/ TokenNext

Spec == Init /\ [][Next]_vars

---------------------------------------------------------------------------
(* Properties of the line wrapper, checked under SpecWrap.                 *)

\* the indices 0-based of the cells of l, from lo to hi, that are white space
\* and not a non-breaking space: the legal break points
BreakPoints(l, lo, hi) ==
    { i \in lo..hi : i < Len(l) /\ IsSpace(At(l, i).Rune) /\ At(l, i).Rune # NO_BREAK_SPACE }

Max(S) == CHOOSE x \in S : \A y \in S : y <= x

\* C1: every sub-line wrapLine has produced is at most width cells long.
C1_SubLinesFitWidth ==
    \A i \in 1..Len(wrapped) : Len(wrapped[i]) <= width

\* C1 witness: a finished wrap of a line longer than width, with a sub-line
\* of exactly width cells.
C1_Witness ==
    /\ pc = "done" /\ Len(input) > width /\ Len(wrapped) >= 2
    /\ \E i \in 1..Len(wrapped) : Len(wrapped[i]) = width

\* C2: no sub-line ends with a white-space cell, and no sub-line but the
\* first begins with one.
C2_NoStrayWhitespace ==
    \A i \in 1..Len(wrapped) :
        LET sub == wrapped[i]
        IN Len(sub) > 0 =>
              /\ ~IsSpace(sub[Len(sub)].Rune)
              /\ (i > 1 => ~IsSpace(sub[1].Rune))

\* C2 witness: a finished wrap in which white space was trimmed at a break
\* (the sub-lines hold fewer cells than the right-trimmed input) and the
\* first sub-line kept its leading white space.
C2_Witness ==
    /\ pc = "done" /\ Len(wrapped) >= 2
    /\ Len(wrapped[1]) > 0 /\ IsSpace(wrapped[1][1].Rune)
    /\ IsSpace(input[Len(input)].Rune)
    /\ \E i \in 2..Len(input) - 1 : IsSpace(input[i].Rune)

\* C3: wrapLine never returns an empty result: a line with no cells left
\* after the trailing white-space trim yields exactly one, empty, sub-line.
C3_BlankLineYieldsOneEmptySubLine ==
    pc = "done" =>
        /\ Len(wrapped) >= 1
        /\ (TrimSpaceRight(input) = <<>> => wrapped = << <<>> >>)

\* C4: a line no longer than width comes back as exactly one sub-line, the
\* line without its trailing white space.
C4_ShortLineYieldsItsTrim ==
    (pc = "done" /\ Len(input) <= width) => wrapped = << TrimSpaceRight(input) >>

\* C5 as stated: in each iteration of the scanning wrapper the break index
\* is the nearest legal break point at or below index width, down to the
\* start of the remaining line (index 0); width only when there is none.
C5_BreakAtNearestDownToStart ==
    [][(pc = "loop" /\ pc' = "loop" /\ impl = "scan") =>
          wrapWidth' = IF BreakPoints(line, 0, width) # {}
                       THEN Max(BreakPoints(line, 0, width)) ELSE width]_vars

\* C5 amended: in each iteration of the scanning wrapper the break index is
\* the nearest legal break point among the indices width down to 1 (index 0
\* is not examined); width only when there is none among them; a break
\* index below width is never a non-breaking space.
C5_BreakAtNearestDownToOne ==
    [][(pc = "loop" /\ pc' = "loop" /\ impl = "scan") =>
          /\ wrapWidth' = IF BreakPoints(line, 1, width) # {}
                          THEN Max(BreakPoints(line, 1, width)) ELSE width
          /\ (wrapWidth' < width => At(line, wrapWidth').Rune # NO_BREAK_SPACE)]_vars

\* C5 witness: the scan passed over a non-breaking space at index width and
\* a letter, and broke at the space at index 1.
C5_Witness ==
    /\ impl = "scan" /\ entry = "wrapLine" /\ pc = "loop" /\ Len(wrapped) = 1
    /\ width = 3 /\ wrapWidth = 1 /\ Len(input) > 3
    /\ At(input, 3).Rune = NO_BREAK_SPACE /\ ~IsSpace(At(input, 2).Rune)

\* C6 as stated: the wrapper called with len(line) <= width panics and
\* returns no sub-lines.
C6_ShortLineNeverReturns ==
    (entry = "wrapLine" /\ Len(input) <= width) => pc # "done"

\* C6 amended: getWrapWidth called with len(line) <= maxWrapWidth panics
\* (and only then); wrapLine never panics, and called with
\* len(line) <= width it returns.
C6_OnlyGetWrapWidthPanics ==
    /\ (entry = "getWrapWidth" => (pc = "panic" <=> Len(input) <= width))
    /\ (entry = "wrapLine" => pc # "panic")
    /\ (entry = "wrapLine" /\ Len(input) <= width /\ pc # "loop" => pc = "done")

\* C6 witness: getWrapWidth panicked on a line of exactly width cells.
C6_Witness ==
    entry = "getWrapWidth" /\ pc = "panic" /\ Len(input) = width

\* the cells of a sequence of sub-lines, in order
RECURSIVE Flatten(_)
Flatten(ss) == IF ss = <<>> THEN <<>> ELSE Head(ss) \o Flatten(Tail(ss))

NotSpace(c) == ~IsSpace(c.Rune)

\* C16: wrapLine loses only white space: the sub-lines' cells that are not
\* white space are those of the input, in order, rune and style.
C16_OnlyWhitespaceLost ==
    pc = "done" => SelectSeq(Flatten(wrapped), NotSpace) = SelectSeq(input, NotSpace)

\* C16 witness: a word of three cells was broken at width 2, mid-word, and a
\* space after it was dropped.
C16_Witness ==
    /\ pc = "done" /\ width = 2 /\ Len(input) >= 5 /\ Len(wrapped) >= 3
    /\ NotSpace(input[1]) /\ NotSpace(input[2]) /\ NotSpace(input[3])
    /\ input[4].Rune = 32 /\ NotSpace(input[5])

\* C17: wrapLine terminates: every iteration breaks at an index in 1..width
\* and leaves a shorter remainder, wrapLine never panics, and once entered
\* it returns.
C17_WrapLineTerminates ==
    /\ [][(pc = "loop" /\ pc' = "loop") =>
             (wrapWidth' \in 1..width /\ Len(line') < Len(line))]_vars
    /\ [](entry = "wrapLine" => pc # "panic")
    /\ ((entry = "wrapLine") ~> (pc = "done"))

\* C17 witness: wrapLine returned after at least two iterations.
C17_Witness ==
    pc = "done" /\ entry = "wrapLine" /\ Len(wrapped) >= 3 /\ Len(input) > 2 * width

---------------------------------------------------------------------------
(* Properties of the colour model, checked under SpecColor.                *)

\* the tag a constructor gives its colours
CtorTag(c) ==
    IF c = "NewColor16" THEN ColorType16
    ELSE IF c = "NewColor256" THEN ColorType256
    ELSE ColorType24bit

\* the value a constructor is asked to store
CtorValue(c, a) ==
    IF c = "NewColor24Bit" THEN a[1] * (2^16) + a[2] * (2^8) + a[3] ELSE a[1]

\* the values valid for a tag
ValidValues(tag) ==
    IF tag = ColorType16 THEN 0..15
    ELSE IF tag = ColorType256 THEN 0..255
    ELSE 0..(2^24 - 1)

\* C7: a colour built by a constructor, from any argument of the parameter's
\* type, has the constructor's tag, the argument as its value, and a value
\* valid for the tag.
C7_ConstructorsRoundTrip ==
    (cstate = "built" /\ ctor # "ColorDefault") =>
        /\ ColorType(color) = CtorTag(ctor)
        /\ colorValue(color) = CtorValue(ctor, arg)
        /\ colorValue(color) \in ValidValues(ColorType(color))

\* the colours that carry one of the four precisions
HasPrecision(c) == ColorType(c) \in {ColorType8, ColorType16, ColorType256, ColorType24bit}

\* downsampleTo was called on a colour more precise than its target
Downsampled ==
    /\ cstate \in {"returned", "panic"}
    /\ HasPrecision(color)
    /\ target # ColorTypeDefault
    /\ ColorType(color) > target

\* C8 as stated: a colour more precise than the target comes back tagged
\* with the target's precision.
C8_ResultTaggedAsTarget ==
    Downsampled => (cstate = "returned" /\ ColorType(result) = target)

\* C8 amended: a colour more precise than the target comes back tagged
\* ColorType16 when the nearest palette index is at most 15, which is always
\* so for the targets ColorType8 and ColorType16, and ColorType256 otherwise;
\* its value is an index of the target's palette.
C8_ResultTaggedByIndex ==
    Downsampled =>
        /\ cstate = "returned"
        /\ colorValue(result) \in 0..scanRange(target)
        /\ ColorType(result) = IF colorValue(result) <= 15 THEN ColorType16 ELSE ColorType256
        /\ (target \in {ColorType8, ColorType16} => ColorType(result) = ColorType16)

\* C8 witness: a 24 bit colour downsampled to 256 colours came back as one of
\* the first 16, tagged ColorType16.
C8_Witness ==
    /\ cstate = "returned" /\ ColorType(color) = ColorType24bit
    /\ target = ColorType256 /\ ColorType(result) = ColorType16

\* C9: the value of the downsampled colour is the index of the target's
\* palette nearest to the colour's 24 bit value, the lowest such index.
C9_NearestLowestIndex ==
    Downsampled =>
        LET last == scanRange(target)
            rgb == to24Bit(color)
            d == [i \in 0..last |->
                    LET p == color256ToRGB(i)
                    IN Distance(rgb, NewColor24Bit(p[1], p[2], p[3]))]
            v == colorValue(result)
        IN /\ cstate = "returned"
           /\ v \in 0..last
           /\ \A j \in 0..last : d[v] <= d[j] /\ (d[j] = d[v] => v <= j)

\* C9 witness: two indices of the 256 colour palette were equally near (0
\* and 16 are both black) and the lower one was returned.
C9_Witness ==
    /\ cstate = "returned" /\ ctor = "NewColor24Bit" /\ arg = <<0, 0, 0>>
    /\ target = ColorType256 /\ colorValue(result) = 0
    /\ color256ToRGB(16) = color256ToRGB(0)

\* C10: a colour no more precise than the target comes back as it is.
C10_LowEnoughUnchanged ==
    (/\ cstate \in {"returned", "panic"}
     /\ ColorType(color) # ColorTypeDefault
     /\ target # ColorTypeDefault
     /\ ColorType(color) <= target) => (cstate = "returned" /\ result = color)

\* C10 witness: a 256 colour value outside the first 16 went through a 256
\* colour target.
C10_Witness ==
    /\ cstate = "returned" /\ ctor = "NewColor256" /\ arg = <<196>>
    /\ target = ColorType256 /\ result = color

\* C11: Distance fails whenever its receiver or its argument is Default; it
\* returns no number for such a pair.
C11_DistanceFailsOnDefault ==
    (/\ cstate \in {"distReturned", "distPanic"}
     /\ (ColorType(color) = ColorTypeDefault \/ ColorType(otherColor) = ColorTypeDefault))
        => cstate = "distPanic"

\* a 24 bit colour was downsampled to 256 colours and the result to 16
TwoStepDownsampled ==
    /\ cstate \in {"returned2", "panic2"}
    /\ ColorType(color) = ColorType24bit
    /\ target = ColorType256 /\ target2 = ColorType16

\* C12 as stated: a 24 bit colour downsampled to 256 colours and then to 16
\* gives the colour that downsampling it to 16 colours directly gives.
C12_PathIndependent ==
    TwoStepDownsampled =>
        (cstate = "returned2" /\ result2 = downsampleTo(color, ColorType16))

\* C12 amended: the second step gives a ColorType16 colour, the one of the
\* first 16 palette entries nearest to the palette colour the first step
\* chose; it is what the direct downsampling gives whenever the first step
\* chose one of the first 16 entries.
C12_PathIndependentWithinFirst16 ==
    TwoStepDownsampled =>
        /\ cstate = "returned2"
        /\ ColorType(result2) = ColorType16 /\ colorValue(result2) \in 0..15
        /\ result2 = downsampleTo(to24Bit(result), ColorType16)
        /\ (colorValue(result) <= 15 =>
               (result2 = result /\ result2 = downsampleTo(color, ColorType16)))

\* C12 witness: bright red went to index 9 of the 256 colours and stayed
\* there in the second step.
C12_Witness ==
    /\ TwoStepDownsampled /\ cstate = "returned2"
    /\ arg = <<255, 0, 0>> /\ colorValue(result) = 9 /\ result2 = result

---------------------------------------------------------------------------
(* Properties of the pager, checked under SpecPager.                       *)

\* this step handled a Quit: rune 'q' or key ESC, outside search mode
QuitStep ==
    /\ ploop' \in {"running", "exited"}
    /\ pager.mode # _Searching
    /\ ev' \in {[type |-> "rune", code |-> "q"], [type |-> "key", code |-> "KeyEscape"]}

\* this step handled the rune '?'
HelpRuneStep == ploop' = "running" /\ ev' = [type |-> "rune", code |-> "?"]

\* what '?' saves of a pager
Saved(p) ==
    [reader |-> p.reader, scrollPosition |-> p.scrollPosition,
     leftColumnZeroBased |-> p.leftColumnZeroBased]

\* Quit, the help screen's saved state and its flag
QuitAndHelpState ==
    /\ (QuitStep /\ pager.isShowingHelp) =>
           /\ pager.preHelpState # <<>>
           /\ Saved(pager') = pager.preHelpState[1]
           /\ ~pager'.quit /\ ~pager'.isShowingHelp
    /\ (QuitStep /\ ~pager.isShowingHelp) => pager'.quit
    /\ (HelpRuneStep /\ pager.mode # _Searching /\ ~pager.isShowingHelp) =>
           (pager'.isShowingHelp /\ pager'.preHelpState = <<Saved(pager)>>)
    /\ (pager.isShowingHelp /\ pager'.isShowingHelp) =>
           pager'.preHelpState = pager.preHelpState
    /\ (pager'.isShowingHelp <=> pager'.preHelpState # <<>>)

\* C18 as stated: Quit leaves the help screen, restoring what '?' saved, or
\* quits; isShowingHelp exactly when preHelpState is not nil; '?' while
\* help is showing changes nothing.
C18_QuitLeavesHelpOrQuits ==
    [][/\ QuitAndHelpState
       /\ (HelpRuneStep /\ pager.isShowingHelp) => pager' = pager]_vars

\* C18: Quit leaves the help screen, restoring what '?' saved, or quits;
\* isShowingHelp exactly when preHelpState is not nil; '?' while help is
\* showing changes nothing outside search mode.
C18_QuitLeavesHelpOrQuitsOutsideSearch ==
    [][/\ QuitAndHelpState
       /\ (HelpRuneStep /\ pager.isShowingHelp /\ pager.mode # _Searching) =>
              pager' = pager]_vars

\* C18 witness: 'q' left the help screen and brought back a scrolled document.
C18_Witness ==
    /\ ploop = "running" /\ ev = [type |-> "rune", code |-> "q"]
    /\ pager.mode # _Searching /\ pager.searchString = <<>>
    /\ ~pager.quit /\ ~pager.isShowingHelp /\ pager.preHelpState = <<>>
    /\ pager.reader = DocReader
    /\ pager.scrollPosition = 2 /\ pager.leftColumnZeroBased = 16
\* this step handled an event that calls moveRight(delta)
MoveRightStep(delta) ==
    /\ ploop' = "running"
    /\ \/ /\ pager.mode # _Searching
          /\ ev' = [type |-> "key", code |-> IF delta > 0 THEN "KeyRight" ELSE "KeyLeft"]
       \/ /\ pager.mode # _Searching
          /\ ev' = [type |-> "rune", code |-> IF delta > 0 THEN "l" ELSE "h"]
       \/ ev' = [type |-> "mouse",
                 code |-> IF delta > 0 THEN "MouseWheelRight" ELSE "MouseWheelLeft"]

\* all of a pager but its mode, which onKey resets around moveRight
ButMode(p) == [p EXCEPT !.mode = _Viewing]

\* C19: moveRight(delta) with delta > 0 while line numbers show only hides
\* them; with delta < 0 at column 0 it only shows them; otherwise it only
\* sets leftColumnZeroBased to max(0, leftColumnZeroBased + delta).  The
\* left column is never negative.
C19_LeftRightHideShowLineNumbers ==
    /\ [][\A delta \in {16, -16} :
             MoveRightStep(delta) =>
                 ButMode(pager') =
                     IF pager.ShowLineNumbers /\ delta > 0
                     THEN ButMode([pager EXCEPT !.ShowLineNumbers = FALSE])
                     ELSE IF pager.leftColumnZeroBased = 0 /\ delta < 0
                     THEN ButMode([pager EXCEPT !.ShowLineNumbers = TRUE])
                     ELSE ButMode([pager EXCEPT !.leftColumnZeroBased =
                                      Max({0, pager.leftColumnZeroBased + delta})])]_vars
    /\ [](pager.leftColumnZeroBased >= 0)

\* C19 witness: Left scrolled back from column 32 to column 16, the line
\* numbers hidden.
C19_Witness ==
    /\ ploop = "running" /\ ev = [type |-> "key", code |-> "KeyLeft"]
    /\ pager.mode = _Viewing
    /\ pager.leftColumnZeroBased = 16 /\ ~pager.ShowLineNumbers
\* C20: whenever line numbers are shown the left column is 0, after any
\* events from NewPager's state, also across the help screen.
C20_LineNumbersOnlyAtColumnZero ==
    pager.ShowLineNumbers => pager.leftColumnZeroBased = 0
---------------------------------------------------------------------------
(* Properties of the tokenizer, checked under SpecToken and SpecTokenFair. *)

\* the visible characters of a line made of these pieces
RECURSIVE VisibleOf(_)
VisibleOf(ps) ==
    IF ps = <<>> THEN <<>>
    ELSE (IF Len(Head(ps)) = 1 /\ Head(ps)[1] # Esc THEN Head(ps) ELSE <<>>)
             \o VisibleOf(Tail(ps))

\* every escape sequence of the line is well-formed
AllWellFormed(ps) == \A k \in 1..Len(ps) : ps[k] \in WellFormedPieces

\* the runes of a sequence of cells
RunesOf(cells) == [k \in 1..Len(cells) |-> cells[k].Rune]

\* C13: TokensFromString returns as many cells as the plain string has
\* characters, the plain string being the line's visible characters in
\* order, and logs nothing when every escape sequence is well-formed.
C13_CellsMatchPlainString ==
    tk.state = "done" =>
        /\ Len(tk.cells) = Len(tk.plain)
        /\ RunesOf(tk.cells) = tk.plain
        /\ AllWellFormed(tk.pieces) =>
               (tk.plain = VisibleOf(tk.pieces) /\ tk.diagnostics = 0)

\* C13 witness: a line of two visible characters around a well-formed
\* composite colour sequence was tokenized.
C13_Witness ==
    /\ tk.state = "done"
    /\ tk.pieces = << <<LetterA>>,
                      Csi(<<Numeral(38), Separator, Numeral(5), Separator, Numeral(74)>>,
                          StyleTerminator),
                      <<LetterB>> >>
    /\ Len(tk.cells) = 2 /\ tk.diagnostics = 0
    /\ tk.cells[2].Style.fg = NewColor256(74)

\* a well-formed composite colour starts at numbers[index]
EightBitAt(numbers, index) ==
    /\ NumberAt(numbers, index) \in {38, 48}
    /\ index + 2 < Len(numbers)
    /\ NumberAt(numbers, index + 1) = 5

TwentyFourBitAt(numbers, index) ==
    /\ NumberAt(numbers, index) \in {38, 48}
    /\ index + 4 < Len(numbers)
    /\ NumberAt(numbers, index + 1) = 2

MalformedAt(numbers, index) ==
    \/ NumberAt(numbers, index) \notin {38, 48}
    \/ index + 1 >= Len(numbers)
    \/ NumberAt(numbers, index + 1) \notin {5, 2}
    \/ (NumberAt(numbers, index + 1) = 5 /\ index + 2 >= Len(numbers))
    \/ (NumberAt(numbers, index + 1) = 2 /\ index + 4 >= Len(numbers))

\* the pieces of a line that are malformed or cut short
Malformed(ps) == {k \in 1..Len(ps) : ps[k] \notin WellFormedPieces}

\* C15: a malformed style sequence never aborts tokenizing and never
\* changes the style: consumption returns an error and no colour, a
\* diagnostic is logged, the sequence gives no cell, the Style stays what
\* it was before the sequence, the tokenizer is back in Plain and tokenizes
\* the rest of the line.
C15_MalformedSequenceDiscarded ==
    /\ [](cc.state = "returned" /\ MalformedAt(cc.numbers, cc.index) =>
              cc.failed /\ cc.color = <<>>)
    /\ [][tk'.diagnostics > tk.diagnostics =>
              /\ tk'.diagnostics = tk.diagnostics + 1
              /\ tk'.style = tk.style
              /\ tk'.cells = tk.cells /\ tk'.plain = tk.plain
              /\ tk'.state = "Plain"]_vars
    /\ [][(tk.state = "Collecting" /\ tk'.state = "Collecting") =>
              tk'.style = tk.style /\ tk'.cells = tk.cells]_vars
    /\ [](tk.state = "done" =>
              /\ tk.diagnostics = Cardinality(Malformed(tk.pieces))
              /\ RunesOf(tk.cells) = VisibleOf(tk.pieces))
    /\ (tk.state \in {"Plain", "Collecting"} ~> tk.state = "done")

\* C15 witness: bold followed by a truncated composite colour was discarded
\* and the character after it was tokenized, not bold.
C15_Witness ==
    /\ tk.state = "done"
    /\ tk.pieces = << BoldThenTruncated, <<LetterA>> >>
    /\ tk.diagnostics = 1
    /\ Len(tk.cells) = 1 /\ tk.cells[1].Style = StyleDefault
---------------------------------------------------------------------------
(* Properties of the pager's search, checked under SpecPager.              *)

\* this step handled a key or a rune and the handler returned
KeyOrRuneStep == ploop' \in {"running", "exited"} /\ ev'.type \in {"key", "rune"}

\* the keys that end a search
SearchEndKeys == {"KeyEscape", "KeyEnter", "KeyUp", "KeyDown", "KeyPgUp", "KeyPgDown"}

\* all of a pager but what typing into a search is there to change: the
\* search string, its pattern, and the scroll position that follows the hits
ButSearch(p) ==
    [p EXCEPT !.searchString = <<>>, !.searchPattern = <<>>,
              !.scrollPosition = ZeroScrollPosition]

\* C21: '/' outside a search starts one with an empty string and no
\* pattern; in a search every rune is appended to the search string and
\* does nothing else but let the view follow the hits, no key or rune
\* quits or opens help, Backspace and Delete on an empty string change
\* nothing, and the search ends only in _Viewing, on Enter, Escape, Up,
\* Down, PgUp or PgDown.
C21_SearchCapturesInput ==
    [][/\ (KeyOrRuneStep /\ pager.mode # _Searching
              /\ ev' = [type |-> "rune", code |-> "/"]) =>
              /\ pager'.mode = _Searching
              /\ pager'.searchString = <<>> /\ pager'.searchPattern = <<>>
       /\ (KeyOrRuneStep /\ pager.mode = _Searching /\ ev'.type = "rune") =>
              /\ pager'.searchString = Append(pager.searchString, ev'.code)
              /\ pager'.searchPattern = toPattern(pager'.searchString)
              /\ ButSearch(pager') = ButSearch(pager)
              /\ \/ pager'.scrollPosition = pager.scrollPosition
                 \/ /\ pager'.scrollPosition > pager.scrollPosition
                    /\ GetLine(pager.reader, pager'.scrollPosition) # <<>>
                    /\ MatchString(pager'.searchPattern[1],
                                   GetLine(pager.reader, pager'.scrollPosition)[1])
       /\ (KeyOrRuneStep /\ pager.mode = _Searching) =>
              /\ ~pager'.quit /\ ploop' = "running"
              /\ pager'.isShowingHelp = pager.isShowingHelp
              /\ pager'.preHelpState = pager.preHelpState
              /\ pager'.reader = pager.reader
       /\ (KeyOrRuneStep /\ pager.mode = _Searching /\ pager.searchString = <<>>
              /\ ev'.type = "key" /\ ev'.code \in {"KeyBackspace", "KeyDelete"}) =>
              pager' = pager
       /\ (pager.mode = _Searching /\ pager'.mode # _Searching) =>
              /\ pager'.mode = _Viewing
              /\ ev'.type = "key" /\ ev'.code \in SearchEndKeys
       /\ (KeyOrRuneStep /\ pager.mode = _Searching
              /\ ev'.type = "key" /\ ev'.code \in SearchEndKeys) =>
              pager'.mode = _Viewing]_vars

\* C21 witness: 'q' was typed into a search opened on the help screen: it is
\* in the search string, and the pager neither quit nor left help.
C21_Witness ==
    /\ ploop = "running" /\ ev = [type |-> "rune", code |-> "q"]
    /\ pager.mode = _Searching /\ pager.searchString = <<"q">>
    /\ pager.searchPattern # <<>>
    /\ ~pager.quit /\ pager.isShowingHelp
\* C22: when mode is _NotFound and the pager handles a key, or a rune other
\* than find-next 'n' and find-previous 'p', 'N', the mode afterwards is not
\* _NotFound.
C22_NotFoundResetOnKeypress ==
    [][(/\ KeyOrRuneStep
        /\ pager.mode = _NotFound
        /\ ~(ev'.type = "rune" /\ ev'.code \in {"n", "p", "N"})) =>
           pager'.mode # _NotFound]_vars
\* the lines of p's reader that p's search pattern matches
Hits(p) ==
    {k \in 1..GetLineCount(p.reader) :
        MatchString(p.searchPattern[1], GetLine(p.reader, k)[1])}

Min(S) == CHOOSE x \in S : \A y \in S : x <= y

\* this step handled a find rune after a miss, with a pattern and a document
\* that is not empty, and the handler returned
FindAfterMissStep(chars) ==
    /\ ploop' = "running"
    /\ ev'.type = "rune" /\ ev'.code \in chars
    /\ pager.mode = _NotFound
    /\ pager.searchPattern # <<>>
    /\ GetLineCount(pager.reader) # 0

\* what a wrapped-around search leaves: the first match in search order in
\* _Viewing, or _NotFound when no line matches
WrappedAround(first) ==
    IF Hits(pager) # {}
    THEN pager'.mode = _Viewing /\ pager'.scrollPosition = first
    ELSE pager'.mode = _NotFound

\* C23: after a miss find-next searches forward from line 1 and
\* find-previous backward from the last line: if any line matches, the
\* scroll position becomes the first match in search order and the mode is
\* _Viewing; the mode is _NotFound again only if no line matches.
C23_SearchWrapsAround ==
    [][/\ FindAfterMissStep({"n"}) => WrappedAround(Min(Hits(pager)))
       /\ FindAfterMissStep({"p", "N"}) => WrappedAround(Max(Hits(pager)))]_vars
=============================================================================
